---- MODULE Spec2Model ----
(***************************************************************************)
(* Guild data purge of the TicketsBot database layer.                      *)
(*                                                                         *)
(* PurgeGuildData exists in two versions in the repository: the version    *)
(* that deletes from a list of tables carrying a guild_id column only      *)
(* (src/guildpurge.go, "list"), and the version that first deletes from a  *)
(* map of tables linked to a guild through a parent table and then from    *)
(* the list (src/unnamed/part_002, "linked").  A build contains one of     *)
(* them; the variable version says which.  Spec is one caller calling the  *)
(* purge again and again; SpecConcurrent is two callers running the purge  *)
(* of src/guildpurge.go for different guilds side by side; SpecLocks is    *)
(* two callers running either version with the row locks of the deletes.   *)
(*                                                                         *)
(* The operations of single tables have their own specifications, in which *)
(* the purge is at rest: SpecSupportHours (panel_support_hours),           *)
(* SpecLabels (ticket_label_assignments), SpecOptions (form_input_option), *)
(* SpecRuns (import_logs) and SpecLastMessage (ticket_last_message).       *)
(*                                                                         *)
(* The store is PostgreSQL reached through pgx.  It is modelled by the     *)
(* number of rows every table holds for every guild, the foreign keys the  *)
(* Schema() functions declare, and one transaction with a working copy.    *)
(* A statement, BeginTx, Commit and Rollback may each be failed by the     *)
(* store (connection loss, schema drift, a blocking trigger) or by the     *)
(* caller's context being cancelled: the failure is an input of the        *)
(* action.  The code never looks at ctx itself; a cancellation shows only  *)
(* as the error of the next (or the running) call that was given ctx.      *)
(***************************************************************************)
EXTENDS Integers, Sequences, FiniteSets, TLC

\* ------------------------------------------------------------------ bounds
NumGuilds == 3
MaxRows == 2
\* keys of linkedTables the purges range over where row locks are modelled
MaxLinked == 2

Guilds == 1..NumGuilds
Versions == {"list", "linked"}

\* ------------------------------------------- the descriptor of each version
\* src/guildpurge.go:24-90
directGuildIdTablesList ==
    << "archive_messages", "auto_close_exclude", "category_update_queue", "close_reason",
       "close_request", "exit_survey_responses", "first_response_time", "participant",
       "service_ratings", "ticket_claims", "ticket_last_message", "ticket_members",
       "tickets", "guild_ticket_counters", "panels", "multi_panels",
       "support_team", "forms", "embeds", "custom_integration_secret_values",
       "custom_integration_guilds", "active_language", "archive_channel", "auto_close",
       "blacklist", "channel_category", "claim_settings", "close_confirmation",
       "custom_colours", "feedback_enabled", "guild_metadata", "import_logs",
       "import_mapping", "legacy_premium_entitlement_guilds", "naming_scheme", "on_call",
       "permissions", "premium_guilds", "role_blacklist", "role_permissions",
       "settings", "staff_override", "tags", "ticket_limit",
       "ticket_permissions", "users_can_close", "user_guilds", "webhooks",
       "welcome_messages", "whitelabel_guilds" >>

\* src/unnamed/part_002:124-193
directGuildIdTablesLinked ==
    << "archive_messages", "auto_close_exclude", "category_update_queue", "close_reason",
       "close_request", "exit_survey_responses", "first_response_time", "participants",
       "service_ratings", "ticket_claims", "ticket_last_message", "ticket_members",
       "tickets", "guild_ticket_counters", "panels", "multi_panels",
       "support_team", "forms", "embeds", "custom_integration_secret_values",
       "custom_integration_guilds", "active_language", "archive_channel", "auto_close",
       "blacklist", "channel_category", "claim_settings", "close_confirmation",
       "custom_colours", "feedback_enabled", "guild_leave_time", "guild_metadata",
       "import_logs", "import_mapping", "legacy_premium_entitlement_guilds", "naming_scheme",
       "on_call", "permissions", "premium_guilds", "role_blacklist",
       "role_permissions", "server_blacklist", "settings", "staff_override",
       "tag", "ticket_limit", "ticket_permissions", "used_keys",
       "user_can_close", "user_guilds", "webhooks", "welcome_messages",
       "whitelabel_guilds" >>

\* src/unnamed/part_002:197-287 (a Go map: table -> link)
linkedTables ==
    "multi_panel_targets" :> [column |-> "multi_panel_id", parentTable |-> "multi_panels",
        parentColumn |-> "id", parentGuildColumn |-> "guild_id"] @@
    "panel_access_control_rules" :> [column |-> "panel_id", parentTable |-> "panels",
        parentColumn |-> "panel_id", parentGuildColumn |-> "guild_id"] @@
    "panel_here_mention" :> [column |-> "panel_id", parentTable |-> "panels",
        parentColumn |-> "panel_id", parentGuildColumn |-> "guild_id"] @@
    "panel_role_mentions" :> [column |-> "panel_id", parentTable |-> "panels",
        parentColumn |-> "panel_id", parentGuildColumn |-> "guild_id"] @@
    "panel_support_hours" :> [column |-> "panel_id", parentTable |-> "panels",
        parentColumn |-> "panel_id", parentGuildColumn |-> "guild_id"] @@
    "panel_teams" :> [column |-> "panel_id", parentTable |-> "panels",
        parentColumn |-> "panel_id", parentGuildColumn |-> "guild_id"] @@
    "panel_user_mention" :> [column |-> "panel_id", parentTable |-> "panels",
        parentColumn |-> "panel_id", parentGuildColumn |-> "guild_id"] @@
    "support_team_members" :> [column |-> "team_id", parentTable |-> "support_team",
        parentColumn |-> "id", parentGuildColumn |-> "guild_id"] @@
    "support_team_roles" :> [column |-> "team_id", parentTable |-> "support_team",
        parentColumn |-> "id", parentGuildColumn |-> "guild_id"] @@
    "embed_fields" :> [column |-> "embed_id", parentTable |-> "embeds",
        parentColumn |-> "id", parentGuildColumn |-> "guild_id"] @@
    "form_input_api_headers" :> [column |-> "input_id", parentTable |-> "form_input",
        parentColumn |-> "id", parentGuildColumn |-> "guild_id"] @@
    "form_input_api_config" :> [column |-> "input_id", parentTable |-> "form_input",
        parentColumn |-> "id", parentGuildColumn |-> "guild_id"] @@
    "form_input_options" :> [column |-> "input_id", parentTable |-> "form_input",
        parentColumn |-> "id", parentGuildColumn |-> "guild_id"] @@
    "form_input" :> [column |-> "form_id", parentTable |-> "forms",
        parentColumn |-> "form_id", parentGuildColumn |-> "guild_id"]

\* the order in which the map literal lists its keys
linkedTablesDeclared ==
    << "multi_panel_targets", "panel_access_control_rules", "panel_here_mention", "panel_role_mentions",
       "panel_support_hours", "panel_teams", "panel_user_mention", "support_team_members",
       "support_team_roles", "embed_fields", "form_input_api_headers", "form_input_api_config",
       "form_input_options", "form_input" >>

\* both builds carry the slice of src/unnamed/part_002
directGuildIdTablesOfLinked(v) == directGuildIdTablesLinked

directGuildIdTables(v) ==
    IF v = "list" THEN directGuildIdTablesList ELSE directGuildIdTablesLinked

\* the keys the first loop ranges over; the list version has no such loop
LinkedNames(v) == IF v = "linked" THEN DOMAIN linkedTables ELSE {}

Range(s) == {s[i] : i \in 1..Len(s)}

\* ------------------------------------------------ the schema of the store
\* Foreign keys declared by the Schema() functions of the repository.
FK(c, p, a) == [child |-> c, parent |-> p, onDelete |-> a]

FKMultiPanelTargets ==
    {FK("multi_panel_targets", "multi_panels", "CASCADE"),
     FK("multi_panel_targets", "panels", "CASCADE")}
FKTicketLabelAssignments ==
    {FK("ticket_label_assignments", "tickets", "CASCADE"),
     FK("ticket_label_assignments", "ticket_labels", "CASCADE")}
FKTicketLastMessage == {FK("ticket_last_message", "tickets", "NO ACTION")}
FKPanelHereMentions == {FK("panel_here_mentions", "panels", "CASCADE")}
FKPanelSupportHours == {FK("panel_support_hours", "panels", "CASCADE")}
FKPanelSupportHoursSettings ==
    {FK("panel_support_hours_settings", "panels", "CASCADE")}
FKFormInputOption == {FK("form_input_option", "form_input", "CASCADE")}
FKFormInputApiConfig == {FK("form_input_api_config", "form_input", "CASCADE")}
FKFormInputApiHeaders ==
    {FK("form_input_api_headers", "form_input_api_config", "CASCADE")}
\* form_input is reached from forms (JOIN forms f ON i.form_id = f.form_id);
\* the list version relies on its rows going with the form.
FKFormInput == {FK("form_input", "forms", "CASCADE")}

ForeignKeys ==
    FKMultiPanelTargets \cup FKTicketLabelAssignments \cup FKTicketLastMessage
    \cup FKPanelHereMentions \cup FKPanelSupportHours
    \cup FKPanelSupportHoursSettings \cup FKFormInputOption
    \cup FKFormInputApiConfig \cup FKFormInputApiHeaders \cup FKFormInput

\* Guild-scoped tables whose schema or statements the repository holds and
\* that no version of the purge names.
UnlistedTables ==
    {"ticket_labels", "ticket_label_assignments", "archive_dm_messages",
     "audit_logs", "panel_here_mentions", "panel_support_hours_settings",
     "form_input_option"}

DeclaredTables ==
    UnlistedTables \cup {fk.child : fk \in ForeignKeys}
    \cup {fk.parent : fk \in ForeignKeys} \cup {"server_blacklist"}

Tables ==
    Range(directGuildIdTablesList) \cup Range(directGuildIdTablesLinked)
    \cup DOMAIN linkedTables \cup DeclaredTables

\* the tables of the database a build of version v runs against
StoreTables(v) ==
    Range(directGuildIdTables(v)) \cup LinkedNames(v) \cup DeclaredTables

Rows == [Guilds -> [Tables -> 0..MaxRows]]

\* ------------------------------------------------------------- errors
NoErr == [kind |-> "nil", table |-> "", cause |-> ""]
\* fmt.Errorf("failed to begin transaction: %w", err)
BeginError(cause) == [kind |-> "begin", table |-> "", cause |-> cause]
\* the cause is formatted into the text and no longer wrapped
DeleteErrorUnwrapped(table, cause) == [kind |-> "delete", table |-> table, cause |-> ""]

\* fmt.Errorf("failed to delete from %s: %w", table, err)
DeleteError(table, cause) == [kind |-> "delete", table |-> table, cause |-> cause]
\* the result of tx.Commit is dropped
CommitErrorSwallowed(cause) == NoErr

\* the commit's error is built with the statements' format string
CommitErrorAsStatement(cause) == DeleteError("", cause)

\* fmt.Errorf("failed to commit transaction: %w", err)
CommitError(cause) == [kind |-> "commit", table |-> "", cause |-> cause]

NoFail == [table |-> "", cause |-> "", at |-> 0]

\* the errors the caller finds in the returned error: %w wraps one
Wrapped(e) == {e.cause} \ {""}

VARIABLES
    version,      \* which PurgeGuildData the build contains
    db,           \* committed rows: guild -> table -> count
    tx,           \* "none", "open", "aborted", "committed", "commitFailed", "rolledback"
    txDeleted,    \* tables the open transaction has deleted the rows of guildId from
    pc,           \* "start", "linked", "direct", "commit", "deferred", "idle"
    guildId,      \* argument of the running (or last) call
    linkedDone,   \* keys of linkedTables the range loop has visited
    di,           \* index of the loop over directGuildIdTables
    err,          \* value returned by the last call
    pre,          \* db[guildId] when the running (or last) call began
    prev,         \* {g} when the call before succeeded for guild g, else {}
    again,        \* the running call repeats a successful purge of guildId
    issuedLinked, \* statements the linked loop has issued in this call
    issuedDirect, \* statements the direct loop has issued in this call
    succeeded,    \* delete statements the store executed in this call
    deleted,      \* sum of RowsAffected over this call
    commits,      \* Commit calls of this call
    failedStmt,   \* the statement the store rejected: table, cause, position
    faulted,      \* the store failed an operation of this call by itself
    cancelledAt,  \* the call of this purge that found ctx cancelled, or ""
    applied,      \* the store has made this call's deletions durable
    ended,        \* times the store ended this call's transaction
    rollbacks,    \* tx.Rollback calls of this call
    rollbackErr,  \* what the deferred tx.Rollback returned (and nobody reads)
    reported,     \* the "Deleted rows" events of the statements of this call
                  \* (of a call whose statements all succeeded, once it is over)
    events,       \* what the logger has received in this call, by kind, and
                  \* the kind of the event it received last
    calls,        \* concurrent calls: caller -> guildId, pc, di, err, rows deleted,
                  \* keys of linkedTables visited, table whose rows it waits for
    txns,         \* their transactions: handle -> state, rows deleted in it
    panel_support_hours, \* rows of the table (without the id column)
    ticket_label_assignments, \* rows of the table: <<guild_id, ticket_id, label_id>>
    replaceLog,   \* of the last Replace: its arguments, what it returned and
                  \* the rows of the table before it
    form_input_option, \* rows of the table: id, form_input_id, position
    optionSeq,    \* the next value of the sequence behind the SERIAL id
    optionLog,    \* of the last Create, Delete or DeleteTx: the call, the id it
                  \* created or was given, whether the store applied it, and the
                  \* position of the option it deleted (0: there was none)
    ticket_last_message,  \* the rows of the table
    lastMessageLog,       \* of Set, Get and Delete: the last call, what it
                          \* was given, what it handed to the store and what
                          \* it returned
    import_logs,  \* the RUN_START rows of the table in the order of their
                  \* run_log_id: guild_id, run_id
    runCalls,     \* the CreateRun calls: caller -> pc, guildId, runCount, err
    hoursLog      \* of the upserts: the values the store applied last per key,
                  \* and of the last call what it was, what it returned and
                  \* whether the store applied it

\* the state of one call and its transaction
callVars == <<tx, txDeleted, pc, guildId, linkedDone, di, err, pre, prev, again,
              issuedLinked, issuedDirect, succeeded, deleted, commits,
              failedStmt, faulted, cancelledAt, applied, ended, rollbacks,
              rollbackErr, reported, events>>

\* the state of the calls that run side by side
concVars == <<calls, txns>>

\* the tables that have operations of their own
optionVars == <<form_input_option, optionSeq, optionLog>>
hoursVars == <<panel_support_hours, hoursLog>>
labelVars == <<ticket_label_assignments, replaceLog>>
runVars == <<import_logs, runCalls>>
lastMessageVars == <<ticket_last_message, lastMessageLog>>
tableVars == <<hoursVars, labelVars, optionVars, runVars, lastMessageVars>>

vars == <<version, db, callVars, concVars, tableVars>>

\* ------------------------------------------------- the DELETE statements
\* rows of the purged guild in table t as the open transaction sees them
Visible(t) == IF t \in txDeleted THEN 0 ELSE db[guildId][t]

\* the WHERE clause is lost: the rows of every guild match
DirectMatchedAnyGuild(t) ==
    IF t \in txDeleted THEN 0
    ELSE db[CHOOSE g \in Guilds : \A h \in Guilds : db[g][t] >= db[h][t]][t]

\* rows matched by  DELETE FROM t WHERE guild_id = $1
DirectMatched(t) == Visible(t)

\* rows matched by  DELETE FROM t WHERE column IN
\*   (SELECT parentColumn FROM parentTable WHERE parentGuildColumn = $1)
LinkedMatched(t) ==
    IF Visible(linkedTables[t].parentTable) > 0 THEN Visible(t) ELSE 0

\* the keys are declared without ON DELETE CASCADE
NoCascade(t) == {}

\* the tables whose rows go with a row of t: their key to t says ON DELETE CASCADE
CascadeChildren(t) ==
    {fk.child : fk \in {f \in ForeignKeys : f.parent = t /\ f.onDelete = "CASCADE"}}

RECURSIVE CascadeClosure(_)
CascadeClosure(S) ==
    LET next == S \cup UNION {CascadeChildren(t) : t \in S}
    IN  IF next = S THEN S ELSE CascadeClosure(next)

\* ON DELETE CASCADE, followed from every table of the schema
Cascade == [t \in Tables |-> CascadeClosure({t})]

\* the tables that lose the guild's rows when `matched` rows of t are deleted
Removed(t, matched) == IF matched = 0 THEN {} ELSE Cascade[t]

\* a row that still references a deleted row through a key without ON DELETE
FKViolation(removed) ==
    \E fk \in ForeignKeys :
        /\ fk.onDelete = "NO ACTION"
        /\ fk.parent \in removed
        /\ fk.child \notin removed
        /\ Visible(fk.child) > 0

\* what can fail a call from outside: the store, or ctx being cancelled
Failures == {"fault", "canceled"}

\* the statement is run with context.Background(): a cancelled ctx is not seen
ExecCauseIgnoresContext(removed, fault) ==
    IF fault = "fault" THEN "fault"
    ELSE IF FKViolation(removed) THEN "fk"
    ELSE ""

\* outcome of tx.Exec(ctx, ...): "" for success, else the cause of the error
ExecCause(removed, fault) ==
    IF fault # "" THEN fault
    ELSE IF FKViolation(removed) THEN "fk"
    ELSE ""

\* the statement has lost its WHERE clause
DeleteRowsUnscoped(store, removed, g) ==
    [h \in Guilds |-> [t \in Tables |-> IF t \in removed THEN 0 ELSE store[h][t]]]

\* the statements are scoped by guild: only rows of g go
DeleteRows(store, removed, g) ==
    IF removed = {} THEN store
    ELSE [store EXCEPT ![g] =
            [t \in Tables |-> IF t \in removed THEN 0 ELSE store[g][t]]]

\* the statement runs on the pool (d.Exec), outside the transaction
StoreAfterPoolExec(store, removed, g) == DeleteRows(store, removed, g)

\* tx.Exec writes inside the transaction: committed rows stay as they are
StoreAfterExec(store, removed, g) == store

\* a failed statement aborts the transaction: its writes are void
WritesAfterError(writes) == {}

\* the commit is never sent: the deferred rollback discards the deletions
CommitNotSent(store, writes, g) == store

\* tx.Commit makes the transaction's deletions visible
Committed(store, writes, g) == DeleteRows(store, writes, g)

\* tx.Rollback discards them
RolledBack(store, writes, g) == store

\* the deferred rollback restores what the call found
RollbackUndoesCommit(store, rows, g) == [store EXCEPT ![g] = rows]

\* tx.Rollback on a transaction that Commit has closed changes nothing
RollbackClosed(store, rows, g) == store

\* value of tx.Rollback(ctx): the transaction is closed once Commit was
\* called; otherwise the store rolls back, or the call fails and the store
\* discards the transaction with the connection
RollbackResult(state, ok) ==
    IF state \in {"committed", "commitFailed"} THEN "closed"
    ELSE IF ok THEN "nil" ELSE "failed"

\* every statement is reported, also one that affected no row
ReportsAlways(rowsAffected) == TRUE

\* if rowsAffected > 0 { logger.Info("Deleted rows from table", ...) }
Reports(rowsAffected) == rowsAffected > 0

\* the fields of the event: zap.String("table"), zap.Int64("rows_deleted")
Report(table, rowsAffected) == [table |-> table, rows |-> rowsAffected]

\* the logger before the call's first event
NoEvents == [start |-> 0, rows |-> FALSE, failed |-> 0, completed |-> 0, last |-> ""]

\* logger.Info / logger.Error: one more event of the kind, which is now the
\* last one ("start", "rows", "failed", "completed")
Emit(log, kind) ==
    IF kind = "rows" THEN [log EXCEPT !.rows = TRUE, !.last = kind]
    ELSE [log EXCEPT ![kind] = @ + 1, !.last = kind]

\* the completion is logged whatever tx.Commit returned
CompletesAlways(commitErr) == TRUE

\* "Successfully completed guild data purge" is logged past the return on a
\* commit error
Completes(commitErr) == commitErr = "nil"

\* ------------------------------------------------------------- control
\* the linked loop is left after its first pass
LinkedLoopLeftEarly(done) == done # {}

\* range over linkedTables has visited every key
LinkedLoopDone(done) == done = DOMAIN linkedTables

\* the loop does not advance: the statement of the same table is issued again
NextDirectAgain(i) == i

\* range moves on to the next element of directGuildIdTables
NextDirect(i) == i + 1

\* the slice lists tickets ahead of its last two child tables
TableAtTicketsEarly(v, i) ==
    LET list == directGuildIdTables(v)
        at == CHOOSE k \in DOMAIN list : list[k] = "tickets"
    IN  IF i = at THEN list[at - 2]
        ELSE IF i = at - 2 THEN list[at]
        ELSE list[i]

\* the element the i-th pass of  range directGuildIdTables  binds to table
TableAt(v, i) == directGuildIdTables(v)[i]

\* for _, table := range directGuildIdTables
DirectLoopDone(v, i) == i > Len(directGuildIdTables(v))

\* the error is logged and the loop goes on
OnExecErrorContinue(p) == p

\* if err != nil { ...; return fmt.Errorf(...) }: the function is left
OnExecError(p) == "deferred"

\* defer tx.Rollback is registered before the error of BeginTx is looked at
OnBeginErrorDeferred == "deferred"

\* if err != nil { return fmt.Errorf("failed to begin transaction: %w", err) }
\* comes before defer tx.Rollback(ctx): the function is left at once
OnBeginError == "idle"

\* link.parentColumn is taken for the parent's name
ParentOfColumn(t) == linkedTables[t].parentColumn

\* link.parentTable, the table the subquery selects from
ParentOf(t) == linkedTables[t].parentTable

\* the tables met when following parentTable from t for at most n links
RECURSIVE Ancestors(_, _)
Ancestors(t, n) ==
    IF n = 0 \/ t \notin DOMAIN linkedTables THEN {t}
    ELSE {t} \cup Ancestors(ParentOf(t), n - 1)

\* first statement after a successful BeginTx
FirstPhase(v) == IF LinkedNames(v) = {} THEN "direct" ELSE "linked"

\* number of delete statements of a complete purge
StatementCount ==
    [v \in Versions |-> Cardinality(LinkedNames(v)) + Len(directGuildIdTables(v))]
TotalStatements(v) == StatementCount[v]

\* ---------------------------------------------- calls that run side by side
\* the two callers of the purge: goroutines sharing the Database d
Callers == {"A", "B"}

\* of the returned error a concurrent call keeps what it failed in and why
Failed(kind, cause) == [kind |-> kind, cause |-> cause]

NotCalled ==
    [guildId |-> 0, pc |-> "start", di |-> 1, err |-> Failed("nil", ""),
     deleted |-> 0, applied |-> FALSE, linkedDone |-> {}, waits |-> ""]
NoTx == [state |-> "none", writes |-> {}]

\* d keeps the transaction in a field: every call uses the same handle
TxOfDatabase(c) == "A"

\* tx, err := d.BeginTx(ctx): a handle of its own for every call
TxOf(c) == c

\* a row of the store is told by its guild and table
Cells(g, tables) == {<<g, t>> : t \in tables}

\* rows of guild g in table t as the transaction of caller c sees them: the
\* committed rows less its own deletions (READ COMMITTED)
VisibleTo(c, g, t) == IF <<g, t>> \in txns[TxOf(c)].writes THEN 0 ELSE db[g][t]

\* a key without ON DELETE still referenced, in the transaction of caller c
FKViolationFor(c, g, removed) ==
    \E fk \in ForeignKeys :
        /\ fk.onDelete = "NO ACTION"
        /\ fk.parent \in removed
        /\ fk.child \notin removed
        /\ VisibleTo(c, g, fk.child) > 0

\* the store after the commit of a transaction that deleted `cells`
CommittedCells(store, cells) ==
    [g \in Guilds |->
        [t \in Tables |-> IF <<g, t>> \in cells THEN 0 ELSE store[g][t]]]

\* ------------------------------------------------ panel_support_hours
\* PanelSupportHoursTable of src/panelsupporthours.go.  A row is told by its
\* columns panel_id, day_of_week, start_time, end_time, enabled; the SERIAL id
\* is left out, no statement modelled here selects by it.

\* rows of panels the foreign key of panel_id can point to
Panels == {1, 2}

\* the arguments the calls are tried with: two panels and two days with two
\* settings each, a day outside the CHECK and a panel that does not exist
HoursValues ==
    {[start_time |-> "09:00", end_time |-> "17:00", enabled |-> TRUE],
     [start_time |-> "10:00", end_time |-> "16:00", enabled |-> FALSE]}

PanelSupportHours(p, d, v) ==
    [panel_id |-> p, day_of_week |-> d, start_time |-> v.start_time,
     end_time |-> v.end_time, enabled |-> v.enabled]

HoursInputs ==
    {PanelSupportHours(p, d, v) : p \in Panels, d \in {0, 6}, v \in HoursValues}
    \cup {PanelSupportHours(1, 7, CHOOSE v \in HoursValues : v.enabled),
          PanelSupportHours(3, 0, CHOOSE v \in HoursValues : v.enabled)}

\* length of the lists UpsertBatch is called with
MaxBatch == 2

RECURSIVE ListsUpTo(_, _)
ListsUpTo(S, n) ==
    IF n = 0 THEN {<<>>}
    ELSE LET shorter == ListsUpTo(S, n - 1)
         IN  shorter \cup {Append(l, x) : l \in {k \in shorter : Len(k) = n - 1}, x \in S}

\* the lists UpsertBatch is tried with are made of entries for the same day
\* with different settings and PanelIds, for another day, and for a day
\* outside the CHECK
HoursBatchInputs ==
    {sh \in HoursInputs :
        \/ sh.day_of_week = 0 /\ sh.panel_id \in Panels /\ sh.enabled = (sh.panel_id = 1)
        \/ sh.day_of_week = 6 /\ sh.panel_id = 2 /\ sh.enabled
        \/ sh.day_of_week = 7}

HoursBatches == ListsUpTo(HoursBatchInputs, MaxBatch)

HoursKeys == Panels \X {0, 6}
HoursKey(sh) == <<sh.panel_id, sh.day_of_week>>
HoursValue(sh) ==
    [start_time |-> sh.start_time, end_time |-> sh.end_time, enabled |-> sh.enabled]

NoUpserts ==
    [applied |-> [k \in HoursKeys |-> {}],
     last |-> [op |-> "", err |-> "nil", foreign |-> FALSE, wrote |-> FALSE]]

\* ------------------------------------------- ticket_label_assignments
\* TicketLabelAssignmentsTable.Replace of src/ticketlabelassignments.go.

\* rows of tickets (guild_id, id) and of ticket_labels (guild_id, label_id)
\* the foreign keys can point to
TicketRows == {<<1, 1>>, <<1, 2>>, <<2, 1>>}
TicketLabelRows == {<<1, 1>>, <<1, 2>>, <<2, 1>>}

\* Replace is tried for these tickets, with labels of which one exists in
\* guild 1 only and one in no guild
ReplaceTickets == TicketRows
ReplaceLabels == {1, 2, 3}

\* length of the labelIds Replace is called with
MaxLabels == 2

NoReplace ==
    [key |-> <<0, 0>>, labels |-> {}, count |-> 0, err |-> "none", before |-> {}]

\* -------------------------------------------------- form_input_option
\* FormInputOptionTable of src/forminputoptions.go.

\* rows of form_input the foreign key of form_input_id can point to
FormInputs == {1, 2}

\* the highest position Create is tried with below the limit of the CHECK
MaxPosition == 3

\* CHECK(position <= 25)
PositionLimit == 25

\* the values the sequence of the id column gives out
MaxOptions == 3

NoOption == [op |-> "", id |-> 0, applied |-> FALSE, position |-> 0]

\* ---------------------------------------------------------- import_logs
\* ImportLogsTable.CreateRun of src/impportlogs.go, called by two callers.
\* The statement of sql/import_logs/set_run.sql is not part of the sources: it
\* is given guildId, "RUN_START" and runCount and is taken to insert one row
\* with these values.  Rows of one run share guild_id and run_id (AddLog,
\* GetRunLogs), so these two columns are no key of the table.

\* the guilds CreateRun is called for
RunGuilds == {1, 2}

\* RUN_START rows the table is filled up to
MaxRuns == 3

NoRun == [pc |-> "idle", guildId |-> 0, runCount |-> 0, err |-> "nil"]

\* -------------------------------------------------- ticket_last_message
\* TicketLastMessageTable of src/ticketlastmessage.go.  last_message_time is
\* left out: NOW() is not an argument of the calls.

TicketLastMessage(guild, ticket, messageId, userId, userIsStaff) ==
    [guild_id |-> guild, ticket_id |-> ticket, last_message_id |-> messageId,
     user_id |-> userId, user_is_staff |-> userIsStaff]

MessageIds == {1, 2}
UserIds == {1, 2}

\* PRIMARY KEY("guild_id", "ticket_id")
LastMessageKeyed(rows) ==
    \A r1, r2 \in rows :
        (r1.guild_id = r2.guild_id /\ r1.ticket_id = r2.ticket_id) => r1 = r2

\* the tables the program can find: rows of the tickets <<1, 1>> and <<2, 1>>
StoredLastMessages ==
    {rows \in SUBSET {TicketLastMessage(k[1], k[2], m, 1, staff) :
                        k \in {<<1, 1>>, <<2, 1>>}, m \in MessageIds,
                        staff \in BOOLEAN} : LastMessageKeyed(rows)}

NoLastMessage ==
    [op |-> "", key |-> <<0, 0>>, given |-> <<>>, supplied |-> <<>>,
     placeholders |-> {}, err |-> "nil", result |-> {}]

\* ------------------------------------------------------------- initial
\* guild 1 is unknown to the database; guild g > 1 holds g - 1 rows (at most
\* MaxRows) in every table of the store
InitialRows(g) == IF g - 1 < MaxRows THEN g - 1 ELSE MaxRows

Populate(v) ==
    [g \in Guilds |->
        [t \in Tables |-> IF t \in StoreTables(v) THEN InitialRows(g) ELSE 0]]

\* the store of each build before any purge
InitialStore == [v \in Versions |-> Populate(v)]

\* no purge has been called, no table operation has run
AtRest ==
    /\ tx = "none"
    /\ txDeleted = {}
    /\ pc = "start"
    /\ guildId = 1
    /\ linkedDone = {}
    /\ di = 1
    /\ err = NoErr
    /\ prev = {}
    /\ again = FALSE
    /\ issuedLinked = 0
    /\ issuedDirect = 0
    /\ succeeded = 0
    /\ deleted = 0
    /\ commits = 0
    /\ failedStmt = NoFail
    /\ faulted = FALSE
    /\ cancelledAt = ""
    /\ applied = FALSE
    /\ ended = 0
    /\ rollbacks = 0
    /\ rollbackErr = "nil"
    /\ reported = {}
    /\ events = NoEvents
    /\ calls = [c \in Callers |-> NotCalled]
    /\ txns = [c \in Callers |-> NoTx]
    /\ panel_support_hours = {}
    /\ hoursLog = NoUpserts
    /\ ticket_label_assignments = {}
    /\ replaceLog = NoReplace
    /\ form_input_option = {}
    /\ optionSeq = 1
    /\ optionLog = NoOption
    /\ import_logs = <<>>
    /\ runCalls = [c \in Callers |-> NoRun]
    /\ lastMessageLog = NoLastMessage

Init ==
    /\ version \in Versions
    /\ db = InitialStore[version]
    /\ pre = db[1]
    /\ AtRest
    /\ ticket_last_message = {}

\* where the operations of a single table are followed, the rows the purge
\* deletes are not part of the state
InitTables ==
    /\ version = "list"
    /\ db = <<>>
    /\ pre = <<>>
    /\ AtRest
    /\ ticket_last_message = {}

\* the table holds the rows earlier writers of the database left in it
InitLastMessage ==
    /\ version = "list"
    /\ db = <<>>
    /\ pre = <<>>
    /\ AtRest
    /\ ticket_last_message \in StoredLastMessages

\* PurgeGuildData entry: logger.Info, d.BeginTx, defer tx.Rollback
BeginTx(g, fault) ==
    /\ pc \in {"start", "idle"}
    /\ pc = "idle" => g = guildId
    /\ guildId' = g
    /\ pre' = db[g]
    /\ again' = (prev = {g})
    /\ issuedLinked' = 0
    /\ issuedDirect' = 0
    /\ succeeded' = 0
    /\ deleted' = 0
    /\ commits' = 0
    /\ failedStmt' = NoFail
    /\ linkedDone' = {}
    /\ di' = 1
    /\ txDeleted' = {}
    /\ faulted' = (fault # "")
    /\ cancelledAt' = IF fault = "canceled" THEN "begin" ELSE ""
    /\ applied' = FALSE
    /\ ended' = 0
    /\ rollbacks' = 0
    /\ rollbackErr' = "nil"
    /\ reported' = {}
    /\ events' = Emit(NoEvents, "start")
    /\ IF fault = ""
       THEN /\ tx' = "open"
            /\ pc' = FirstPhase(version)
            /\ err' = NoErr
       ELSE /\ tx' = "none"
            /\ pc' = OnBeginError
            /\ err' = BeginError(fault)
    /\ prev' = {}
    /\ UNCHANGED <<version, db, concVars, tableVars>>

\* one tx.Exec and the code after it, for table t matching `matched` rows;
\* nextDone, nextDi and nextPc are the loop's state after a successful pass
Exec(t, matched, fault, nextDone, nextDi, nextPc) ==
    LET removed == Removed(t, matched)
        cause == ExecCause(removed, fault)
    IN  /\ faulted' = (faulted \/ fault # "")
        /\ cancelledAt' = IF fault = "canceled" THEN "statement" ELSE cancelledAt
        /\ IF cause # ""
           THEN /\ db' = db
                /\ failedStmt' = [table |-> t, cause |-> cause,
                                  at |-> issuedLinked' + issuedDirect']
                /\ err' = DeleteError(t, cause)
                /\ tx' = "aborted"
                /\ txDeleted' = WritesAfterError(txDeleted)
                /\ pc' = OnExecError(pc)
                /\ linkedDone' = {}
                /\ di' = 1
                /\ reported' = {}
                /\ events' = Emit(events, "failed")
                /\ UNCHANGED <<succeeded, deleted>>
           ELSE /\ db' = StoreAfterExec(db, removed, guildId)
                /\ txDeleted' = txDeleted \cup removed
                /\ succeeded' = succeeded + 1
                /\ deleted' = deleted + matched
                /\ reported' = IF Reports(matched)
                                THEN reported \cup {Report(t, matched)}
                                ELSE reported
                /\ events' = IF Reports(matched) THEN Emit(events, "rows")
                              ELSE events
                /\ pc' = nextPc
                /\ linkedDone' = nextDone
                /\ di' = nextDi
                /\ UNCHANGED <<failedStmt, err, tx>>
        /\ UNCHANGED <<version, guildId, pre, prev, again, commits, applied,
                       ended, rollbacks, rollbackErr, concVars, tableVars>>

\* one iteration of  for table, link := range linkedTables
ExecLinked(t, fault) ==
    /\ pc = "linked"
    /\ t \in DOMAIN linkedTables \ linkedDone
    /\ issuedLinked' = issuedLinked + 1
    /\ issuedDirect' = issuedDirect
    /\ Exec(t, LinkedMatched(t), fault, linkedDone \cup {t}, di,
            IF LinkedLoopDone(linkedDone \cup {t}) THEN "direct" ELSE "linked")

\* one iteration of  for _, table := range directGuildIdTables
ExecDirect(fault) ==
    /\ pc = "direct"
    /\ di <= Len(directGuildIdTables(version))
    /\ issuedDirect' = issuedDirect + 1
    /\ issuedLinked' = issuedLinked
    /\ Exec(TableAt(version, di),
            DirectMatched(TableAt(version, di)),
            fault, linkedDone, NextDirect(di),
            IF DirectLoopDone(version, NextDirect(di)) THEN "commit" ELSE "direct")

\* tx.Commit(ctx).  It succeeds; or the store fails it, with the deletions
\* lost or applied all the same (the reply was lost); or ctx is found
\* cancelled before COMMIT is sent ("before": nothing is applied) or while it
\* is in flight ("during": lost or applied).
Commit(outcome, cancel) ==
    /\ pc = "commit"
    /\ outcome = "ok" => cancel = ""
    /\ cancel = "before" => outcome = "lost"
    /\ commits' = commits + 1
    /\ ended' = ended + 1
    /\ pc' = "deferred"
    /\ linkedDone' = {}
    /\ di' = 1
    /\ txDeleted' = {}
    /\ cancelledAt' = IF cancel = "before" THEN "commit"
                      ELSE IF cancel = "during" THEN "committing"
                      ELSE cancelledAt
    /\ IF outcome = "ok"
       THEN /\ db' = Committed(db, txDeleted, guildId)
            /\ tx' = "committed"
            /\ applied' = TRUE
            /\ err' = NoErr
            /\ faulted' = faulted
            /\ events' = IF Completes("nil") THEN Emit(events, "completed")
                          ELSE events
       ELSE /\ db' = IF outcome = "applied"
                     THEN Committed(db, txDeleted, guildId)
                     ELSE RolledBack(db, txDeleted, guildId)
            /\ tx' = "commitFailed"
            /\ applied' = (outcome = "applied")
            /\ err' = CommitError(IF cancel = "" THEN "fault" ELSE "canceled")
            /\ faulted' = TRUE
            /\ events' = IF Completes("failed") THEN Emit(events, "completed")
                          ELSE events
    /\ UNCHANGED <<version, guildId, pre, prev, again, issuedLinked,
                   issuedDirect, succeeded, deleted, failedStmt, rollbacks,
                   rollbackErr, reported, concVars, tableVars>>

\* the deferred tx.Rollback(ctx), whose result is dropped, and the return to
\* the caller
DeferredRollback(ok) ==
    /\ pc = "deferred"
    /\ tx \in {"committed", "commitFailed"} => ok
    /\ pc' = "idle"
    /\ rollbacks' = rollbacks + 1
    /\ rollbackErr' = RollbackResult(tx, ok)
    /\ tx' = IF tx \in {"open", "aborted"} THEN "rolledback" ELSE tx
    /\ ended' = IF tx \in {"open", "aborted"} THEN ended + 1 ELSE ended
    /\ db' = IF tx \in {"open", "aborted"}
             THEN RolledBack(db, txDeleted, guildId)
             ELSE RollbackClosed(db, pre, guildId)
    /\ txDeleted' = {}
    /\ prev' = IF err = NoErr THEN {guildId} ELSE {}
    /\ UNCHANGED <<version, guildId, linkedDone, di, err, pre, again,
                   issuedLinked, issuedDirect, succeeded, deleted, commits,
                   failedStmt, faulted, cancelledAt, applied, reported,
                   events, concVars, tableVars>>

Next ==
    \/ \E g \in Guilds, fault \in {""} \cup Failures : BeginTx(g, fault)
    \/ \E t \in DOMAIN linkedTables, fault \in {""} \cup Failures :
            ExecLinked(t, fault)
    \/ \E fault \in {""} \cup Failures : ExecDirect(fault)
    \/ \E outcome \in {"ok", "lost", "applied"},
          cancel \in {"", "before", "during"} : Commit(outcome, cancel)
    \/ \E ok \in BOOLEAN : DeferredRollback(ok)

Spec == Init /\ [][Next]_vars

TypeOK ==
    /\ version \in Versions
    /\ db \in Rows
    /\ txDeleted \subseteq Tables
    /\ pc \in {"start", "idle", "linked", "direct", "commit", "deferred"}
    /\ guildId \in Guilds
    /\ cancelledAt \in {"", "begin", "statement", "commit", "committing"}
    /\ applied \in BOOLEAN
    /\ rollbackErr \in {"nil", "failed", "closed"}

\* ----------------------------------------- two purges running side by side
\* The callers run PurgeGuildData of src/guildpurge.go for different guilds,
\* each step of one interleaved with the steps of the other.

\* entry of the call of caller c for guild g
CBeginTx(c, g, fault) ==
    /\ calls[c].pc = "start"
    /\ \A o \in Callers \ {c} : calls[o].guildId # g
    /\ IF fault = ""
       THEN /\ calls' = [calls EXCEPT ![c] =
                    [NotCalled EXCEPT !.guildId = g, !.pc = FirstPhase(version)]]
            /\ txns' = [txns EXCEPT ![TxOf(c)] = [state |-> "open", writes |-> {}]]
       ELSE /\ calls' = [calls EXCEPT ![c] =
                    [NotCalled EXCEPT !.guildId = g, !.pc = OnBeginError,
                                      !.err = Failed("begin", fault)]]
            /\ txns' = txns
    /\ UNCHANGED <<version, db, callVars, tableVars>>

\* one iteration of the loop over directGuildIdTables in the call of c
CExecDirect(c, fault) ==
    LET k == calls[c]
        h == TxOf(c)
        t == directGuildIdTables(version)[k.di]
        matched == VisibleTo(c, k.guildId, t)
        removed == Removed(t, matched)
        cause == IF txns[h].state # "open" THEN "closed"
                 ELSE IF fault # "" THEN fault
                 ELSE IF FKViolationFor(c, k.guildId, removed) THEN "fk"
                 ELSE ""
    IN  /\ k.pc = "direct"
        /\ IF cause # ""
           THEN /\ calls' = [calls EXCEPT ![c].pc = OnExecError(k.pc),
                                          ![c].di = 1,
                                          ![c].err = Failed("delete", cause)]
                /\ txns' = [txns EXCEPT ![h] =
                     [state |-> IF @.state = "open" THEN "aborted" ELSE @.state,
                      writes |-> WritesAfterError(@.writes)]]
           ELSE /\ calls' = [calls EXCEPT
                     ![c].di = NextDirect(k.di),
                     ![c].deleted = k.deleted + matched,
                     ![c].pc = IF DirectLoopDone(version, NextDirect(k.di))
                               THEN "commit" ELSE "direct"]
                /\ txns' = [txns EXCEPT
                     ![h].writes = @ \cup Cells(k.guildId, removed)]
        /\ UNCHANGED <<version, db, callVars, tableVars>>

\* tx.Commit in the call of c
CCommit(c, outcome) ==
    LET h == TxOf(c)
        sent == txns[h].state = "open"
    IN  /\ calls[c].pc = "commit"
        /\ ~sent => outcome = "lost"
        /\ db' = IF outcome \in {"ok", "applied"}
                 THEN CommittedCells(db, txns[h].writes) ELSE db
        /\ txns' = [txns EXCEPT ![h] =
               [state |-> IF ~sent THEN @.state
                          ELSE IF outcome = "ok" THEN "committed"
                          ELSE "commitFailed",
                writes |-> {}]]
        /\ calls' = [calls EXCEPT
               ![c].pc = "deferred",
               ![c].di = 1,
               ![c].applied = (outcome \in {"ok", "applied"}),
               ![c].err = IF outcome = "ok" THEN Failed("nil", "")
                          ELSE Failed("commit", IF sent THEN "fault" ELSE "closed")]
        /\ UNCHANGED <<version, callVars, tableVars>>

\* the deferred tx.Rollback in the call of c, and its return
CDeferredRollback(c) ==
    LET h == TxOf(c)
    IN  /\ calls[c].pc = "deferred"
        /\ calls' = [calls EXCEPT ![c].pc = "idle"]
        /\ txns' = [txns EXCEPT ![h] =
               IF @.state \in {"open", "aborted"}
               THEN [state |-> "rolledback", writes |-> {}] ELSE @]
        /\ UNCHANGED <<version, db, callVars, tableVars>>

InitConcurrent == Init /\ version = "list"

NextConcurrent ==
    \E c \in Callers :
        \/ \E g \in Guilds, fault \in {""} \cup Failures : CBeginTx(c, g, fault)
        \/ \E fault \in {""} \cup Failures : CExecDirect(c, fault)
        \/ \E outcome \in {"ok", "lost", "applied"} : CCommit(c, outcome)
        \/ CDeferredRollback(c)

SpecConcurrent == InitConcurrent /\ [][NextConcurrent]_vars

\* ------------------------------------- two purges and the locks on their rows
\* The callers run PurgeGuildData of either version, for the same guild or for
\* different guilds.  A DELETE locks the rows it deletes until its transaction
\* ends; it waits while another transaction holds a lock on one of them, and
\* when that transaction has committed it finds the rows gone (READ COMMITTED).
\* The range over linkedTables is cut to the first MaxLinked keys of the map.
LockedLinked == {linkedTablesDeclared[i] : i \in 1..MaxLinked}

\* the table of the statement caller c issues next when it is in the direct
\* loop, or waits for in the linked loop
StatementTable(c) ==
    IF calls[c].pc = "direct" THEN TableAt(version, calls[c].di) ELSE calls[c].waits

\* rows the DELETE of caller c on table t matches
MatchedBy(c, t) ==
    LET g == calls[c].guildId
    IN  IF calls[c].pc = "direct" THEN VisibleTo(c, g, t)
        ELSE IF VisibleTo(c, g, linkedTables[t].parentTable) > 0
             THEN VisibleTo(c, g, t) ELSE 0

\* the rows the DELETE of caller c on table t has to lock
LockCells(c, t) == Cells(calls[c].guildId, Removed(t, MatchedBy(c, t)))

\* the open transaction of another caller has locked one of the rows
HeldByOther(c, cells) ==
    \E o \in Callers \ {c} :
        txns[TxOf(o)].state = "open" /\ cells \cap txns[TxOf(o)].writes # {}

\* the statement of caller c is waiting for a lock
Waiting(c) ==
    /\ calls[c].pc \in {"linked", "direct"}
    /\ calls[c].waits # ""
    /\ HeldByOther(c, LockCells(c, StatementTable(c)))

\* each transaction waits for a lock the other holds
Deadlocked == \A c \in Callers : Waiting(c)

LBeginTx(c, g) ==
    /\ calls[c].pc = "start"
    /\ calls' = [calls EXCEPT ![c] =
            [NotCalled EXCEPT !.guildId = g, !.pc = FirstPhase(version)]]
    /\ txns' = [txns EXCEPT ![TxOf(c)] = [state |-> "open", writes |-> {}]]
    /\ UNCHANGED <<version, db, callVars, tableVars>>

\* tx.Exec of the DELETE on table t in the call of c: it waits, fails on a
\* foreign key, or deletes and the loop goes on as `after` says
LExec(c, t, after) ==
    LET cells == LockCells(c, t)
        h == TxOf(c)
    IN  /\ calls[c].waits \in {"", t}
        /\ IF HeldByOther(c, cells)
           THEN /\ calls' = [calls EXCEPT ![c].waits = t]
                /\ txns' = txns
           ELSE IF FKViolationFor(c, calls[c].guildId, Removed(t, MatchedBy(c, t)))
           THEN /\ calls' = [calls EXCEPT ![c].pc = OnExecError(calls[c].pc),
                                          ![c].di = 1,
                                          ![c].linkedDone = {},
                                          ![c].waits = "",
                                          ![c].err = Failed("delete", "fk")]
                /\ txns' = [txns EXCEPT ![h] =
                       [state |-> "aborted", writes |-> WritesAfterError(@.writes)]]
           ELSE /\ calls' = [calls EXCEPT ![c] =
                       [after EXCEPT !.waits = "",
                                     !.deleted = @ + MatchedBy(c, t)]]
                /\ txns' = [txns EXCEPT ![h].writes = @ \cup cells]
        /\ UNCHANGED <<version, db, callVars, tableVars>>

\* one iteration of  for table, link := range linkedTables  in the call of c
LExecLinked(c, t) ==
    LET done == calls[c].linkedDone \cup {t}
    IN  /\ calls[c].pc = "linked"
        /\ t \in LockedLinked \ calls[c].linkedDone
        /\ LExec(c, t, [calls[c] EXCEPT
                 !.linkedDone = IF done = LockedLinked THEN {} ELSE done,
                 !.pc = IF done = LockedLinked THEN "direct" ELSE "linked"])

\* one iteration of  for _, table := range directGuildIdTables  in the call of c
LExecDirect(c) ==
    /\ calls[c].pc = "direct"
    /\ LExec(c, TableAt(version, calls[c].di), [calls[c] EXCEPT
             !.di = NextDirect(@),
             !.pc = IF DirectLoopDone(version, NextDirect(calls[c].di))
                    THEN "commit" ELSE "direct"])

\* the store finds the two transactions waiting for each other and fails the
\* statement of one of them: "deadlock detected"
LDeadlockDetected(c) ==
    /\ Deadlocked
    /\ calls' = [calls EXCEPT ![c].pc = OnExecError(calls[c].pc),
                              ![c].di = 1,
                              ![c].linkedDone = {},
                              ![c].waits = "",
                              ![c].err = Failed("delete", "deadlock")]
    /\ txns' = [txns EXCEPT ![TxOf(c)] =
           [state |-> "aborted", writes |-> WritesAfterError(@.writes)]]
    /\ UNCHANGED <<version, db, callVars, tableVars>>

\* tx.Commit in the call of c: the deletions are applied, the locks released
LCommit(c) ==
    /\ calls[c].pc = "commit"
    /\ db' = CommittedCells(db, txns[TxOf(c)].writes)
    /\ txns' = [txns EXCEPT ![TxOf(c)] = [state |-> "committed", writes |-> {}]]
    /\ calls' = [calls EXCEPT ![c].pc = "deferred", ![c].di = 1,
                              ![c].applied = TRUE]
    /\ UNCHANGED <<version, callVars, tableVars>>

\* the deferred tx.Rollback in the call of c, and its return
LDeferredRollback(c) ==
    /\ calls[c].pc = "deferred"
    /\ calls' = [calls EXCEPT ![c].pc = "idle"]
    /\ txns' = [txns EXCEPT ![TxOf(c)] =
           IF @.state \in {"open", "aborted"}
           THEN [state |-> "rolledback", writes |-> {}] ELSE @]
    /\ UNCHANGED <<version, db, callVars, tableVars>>

NextLocks ==
    \E c \in Callers :
        \/ \E g \in Guilds : LBeginTx(c, g)
        \/ \E t \in LockedLinked : LExecLinked(c, t)
        \/ LExecDirect(c)
        \/ LDeadlockDetected(c)
        \/ LCommit(c)
        \/ LDeferredRollback(c)

SpecLocks == Init /\ [][NextLocks]_vars

\* ------------------------------------ the statements on panel_support_hours
\* CHECK (day_of_week >= 0 AND day_of_week <= 6) and the foreign key to panels
HoursConstraint(sh) ==
    IF sh.day_of_week < 0 \/ sh.day_of_week > 6 THEN "check"
    ELSE IF sh.panel_id \notin Panels THEN "fk"
    ELSE ""

\* INSERT ... ON CONFLICT ("panel_id", "day_of_week") DO UPDATE SET
\* start_time, end_time, enabled = EXCLUDED.*
InsertOrUpdate(rows, sh) ==
    IF \E r \in rows : HoursKey(r) = HoursKey(sh)
    THEN {IF HoursKey(r) = HoursKey(sh)
          THEN [r EXCEPT !.start_time = sh.start_time, !.end_time = sh.end_time,
                         !.enabled = sh.enabled]
          ELSE r : r \in rows}
    ELSE rows \cup {sh}

\* the entry is upserted under the PanelId it carries
BatchEntryAsGiven(panelId, sh) == sh

\* sh.PanelId = panelId
BatchEntry(panelId, sh) == [sh EXCEPT !.panel_id = panelId]

\* the loop of UpsertBatch over supportHoursList from entry i on, in the
\* transaction whose rows are `rows`: the rows after the last entry, or the
\* constraint that failed an entry
RECURSIVE BatchLoop(_, _, _, _)
BatchLoop(rows, panelId, list, i) ==
    IF i > Len(list) THEN [err |-> "", rows |-> rows]
    ELSE LET sh == BatchEntry(panelId, list[i])
         IN  IF HoursConstraint(sh) # "" THEN [err |-> HoursConstraint(sh), rows |-> rows]
             ELSE BatchLoop(InsertOrUpdate(rows, sh), panelId, list, i + 1)

\* the log after the store applied the upserts of `list` under panel p
RECURSIVE Applied(_, _, _, _)
Applied(log, p, list, i) ==
    IF i > Len(list) THEN log
    ELSE Applied([log EXCEPT !.applied[<<p, list[i].day_of_week>>] =
                                 {HoursValue(list[i])}],
                 p, list, i + 1)

\* what a call of the store can end in by the store's doing: "" (it works),
\* "fault" (it fails and nothing is written), "applied" (the store has
\* executed and committed it, the reply is lost and the call fails)
HoursFaults == {"", "fault", "applied"}

\* Upsert: the statement on the pool, committed by itself
Upsert(sh, fault) ==
    LET cause == IF HoursConstraint(sh) # "" THEN HoursConstraint(sh) ELSE fault
        written == cause \in {"", "applied"}
    IN  /\ panel_support_hours' =
              IF written THEN InsertOrUpdate(panel_support_hours, sh)
              ELSE panel_support_hours
        /\ hoursLog' =
              [(IF written THEN Applied(hoursLog, sh.panel_id, <<sh>>, 1)
                ELSE hoursLog)
               EXCEPT !.last = [op |-> "Upsert", foreign |-> FALSE, wrote |-> written,
                                err |-> IF cause = "" THEN "nil" ELSE cause]]
        /\ UNCHANGED <<version, db, callVars, concVars, labelVars, optionVars,
                       runVars, lastMessageVars>>

\* UpsertWithTx in a transaction of the caller, which the caller then ends:
\* `ends` is "commit" or "rollback", fault is that of the statement or, when
\* the statement worked, of the caller's Commit
UpsertWithTx(sh, fault, ends) ==
    LET cause == IF HoursConstraint(sh) # "" THEN HoursConstraint(sh) ELSE fault
        written == ends = "commit" /\ cause \in {"", "applied"}
    IN  /\ panel_support_hours' =
              IF written THEN InsertOrUpdate(panel_support_hours, sh)
              ELSE panel_support_hours
        /\ hoursLog' =
              [(IF written THEN Applied(hoursLog, sh.panel_id, <<sh>>, 1)
                ELSE hoursLog)
               EXCEPT !.last = [op |-> "UpsertWithTx", foreign |-> FALSE,
                                wrote |-> written,
                                err |-> IF cause = "" THEN
                                            (IF ends = "commit" THEN "nil" ELSE "rollback")
                                        ELSE cause]]
        /\ UNCHANGED <<version, db, callVars, concVars, labelVars, optionVars,
                       runVars, lastMessageVars>>

\* UpsertBatch: Begin, the loop, Commit and the deferred Rollback.  `at` is
\* the call the store fails ("begin", "statement", "commit") when fault is
\* not ""; a Commit that fails may have been applied
UpsertBatch(panelId, list, at, fault) ==
    LET loop == BatchLoop(panel_support_hours, panelId, list, 1)
        cause == IF fault # "" /\ at = "begin" THEN "begin"
                 ELSE IF fault # "" /\ at = "statement" THEN "statement"
                 ELSE IF loop.err # "" THEN loop.err
                 ELSE IF fault # "" THEN "commit"
                 ELSE ""
        written == cause = "" \/ (cause = "commit" /\ fault = "applied")
    IN  /\ fault = "" => at = "commit"
        /\ at \in {"begin", "statement"} => fault = "fault"
        /\ at = "statement" => list # <<>>
        /\ panel_support_hours' = IF written THEN loop.rows ELSE panel_support_hours
        /\ hoursLog' =
              [(IF written THEN Applied(hoursLog, panelId, list, 1)
                ELSE hoursLog)
               EXCEPT !.last = [op |-> "UpsertBatch",
                                wrote |-> written /\ list # <<>>,
                                foreign |-> \E i \in DOMAIN list :
                                                list[i].panel_id # panelId,
                                err |-> IF cause = "" THEN "nil" ELSE cause]]
        /\ UNCHANGED <<version, db, callVars, concVars, labelVars, optionVars,
                       runVars, lastMessageVars>>

NextSupportHours ==
    \/ \E sh \in HoursInputs, fault \in HoursFaults : Upsert(sh, fault)
    \/ \E sh \in HoursInputs, fault \in HoursFaults, ends \in {"commit", "rollback"} :
            UpsertWithTx(sh, fault, ends)
    \/ \E panelId \in Panels, list \in HoursBatches,
          at \in {"begin", "statement", "commit"}, fault \in HoursFaults :
            UpsertBatch(panelId, list, at, fault)

SpecSupportHours == InitTables /\ [][NextSupportHours]_vars

\* -------------------------------- the statements on ticket_label_assignments
\* the label ids assigned to the ticket `key` in `rows`
LabelsOf(rows, key) == {r[3] : r \in {x \in rows : <<x[1], x[2]>> = key}}

\* the foreign keys of a row to tickets and to ticket_labels
AssignmentConstraint(row) ==
    IF <<row[1], row[2]>> \notin TicketRows THEN "fk"
    ELSE IF <<row[1], row[3]>> \notin TicketLabelRows THEN "fk"
    ELSE ""

\* the statements ran outside a transaction: what they wrote stays
NotRolledBack(before, working) == working

\* the deferred tx.Rollback discards what the statements of the transaction
\* wrote
RolledBackRows(before, working) == before

\* DELETE FROM ticket_label_assignments WHERE guild_id = $1 AND ticket_id = $2
DeleteAssignments(rows, key) == {r \in rows : <<r[1], r[2]>> # key}

\* the loop of Replace over labelIds from entry i on: INSERT ... ON CONFLICT
\* (guild_id, ticket_id, label_id) DO NOTHING; the rows after the last entry,
\* or the constraint that failed an entry
RECURSIVE InsertLoop(_, _, _, _)
InsertLoop(rows, key, labelIds, i) ==
    IF i > Len(labelIds) THEN [err |-> "", rows |-> rows]
    ELSE LET row == <<key[1], key[2], labelIds[i]>>
         IN  IF AssignmentConstraint(row) # ""
             THEN [err |-> AssignmentConstraint(row), rows |-> rows]
             ELSE InsertLoop(rows \cup {row}, key, labelIds, i + 1)

\* Replace: Begin, the DELETE, the loop of INSERTs, Commit and the deferred
\* Rollback.  `at` is the call the store fails ("begin", "delete", "insert",
\* "commit") when fault is not ""; a Commit that fails may have been applied
Replace(key, labelIds, at, fault) ==
    LET emptied == DeleteAssignments(ticket_label_assignments, key)
        loop == InsertLoop(emptied, key, labelIds, 1)
        cause == IF fault # "" /\ at \in {"begin", "delete", "insert"} THEN at
                 ELSE IF loop.err # "" THEN loop.err
                 ELSE IF fault # "" THEN "commit"
                 ELSE ""
        written == cause = "" \/ (cause = "commit" /\ fault = "applied")
    IN  /\ fault = "" => at = "commit"
        /\ at \in {"begin", "delete", "insert"} => fault = "fault"
        /\ at = "insert" => labelIds # <<>>
        /\ ticket_label_assignments' =
              IF written THEN loop.rows
              ELSE IF cause \in {"begin", "delete"} THEN ticket_label_assignments
              ELSE RolledBackRows(ticket_label_assignments,
                                  IF cause = "insert" THEN emptied ELSE loop.rows)
        /\ replaceLog' = [key |-> key, labels |-> Range(labelIds),
                          count |-> Len(labelIds),
                          err |-> IF cause = "" THEN "nil" ELSE cause,
                          before |-> ticket_label_assignments]
        /\ UNCHANGED <<version, db, callVars, concVars, hoursVars, optionVars,
                       runVars, lastMessageVars>>

NextLabels ==
    \E key \in ReplaceTickets, labelIds \in ListsUpTo(ReplaceLabels, MaxLabels),
       at \in {"begin", "delete", "insert", "commit"}, fault \in HoursFaults :
        Replace(key, labelIds, at, fault)

SpecLabels == InitTables /\ [][NextLabels]_vars

\* ------------------------------------- the statements on form_input_option
FormInputOption(id, input, position) ==
    [id |-> id, form_input_id |-> input, position |-> position]

OptionsOf(rows, input) == {r \in rows : r.form_input_id = input}

\* CHECK(position >= 1), CHECK(position <= 25), the foreign key to form_input
\* and UNIQUE(form_input_id, position), which is checked when the statement's
\* transaction commits
OptionConstraint(rows, row) ==
    IF row.position < 1 \/ row.position > PositionLimit THEN "check"
    ELSE IF row.form_input_id \notin FormInputs THEN "fk"
    ELSE IF \E r \in rows : /\ r.form_input_id = row.form_input_id
                             /\ r.position = row.position THEN "unique"
    ELSE ""

\* the option is deleted and no position is changed
DeleteWithoutShift(rows, id) == {r \in rows : r.id # id}

\* WITH deleted_positions AS (DELETE ... WHERE id = $1 RETURNING form_input_id,
\* position) UPDATE ... SET position = position - 1 WHERE form_input_id =
\* (SELECT form_input_id ...) AND position > (SELECT position ...): without a
\* deleted row the subselects are NULL and no row is updated
DeleteAndShift(rows, id) ==
    LET deleted_positions == {r \in rows : r.id = id}
    IN  {IF \E d \in deleted_positions : /\ r.form_input_id = d.form_input_id
                                          /\ r.position > d.position
         THEN [r EXCEPT !.position = @ - 1]
         ELSE r : r \in rows \ deleted_positions}

\* the position of the option with this id, 0 when there is none
PositionOf(rows, id) ==
    IF \E r \in rows : r.id = id THEN (CHOOSE r \in rows : r.id = id).position ELSE 0

\* Create: INSERT ... RETURNING id on the pool.  The sequence gives out a
\* value for every row the store tries to insert.
Create(input, position, fault) ==
    LET row == FormInputOption(optionSeq, input, position)
        cause == IF fault = "fault" THEN "fault"
                 ELSE IF OptionConstraint(form_input_option, row) # ""
                      THEN OptionConstraint(form_input_option, row)
                 ELSE fault
        written == cause \in {"", "applied"}
    IN  /\ optionSeq <= MaxOptions
        /\ optionSeq' = IF fault = "fault" THEN optionSeq ELSE optionSeq + 1
        /\ form_input_option' =
              IF written THEN form_input_option \cup {row} ELSE form_input_option
        /\ optionLog' = [op |-> "Create", id |-> IF cause = "" THEN row.id ELSE 0,
                         applied |-> written, position |-> 0]
        /\ UNCHANGED <<version, db, callVars, concVars, hoursVars, labelVars,
                       runVars, lastMessageVars>>

\* Delete: the statement on the pool, committed by itself
Delete(id, fault) ==
    LET written == fault \in {"", "applied"}
    IN  /\ form_input_option' =
              IF written THEN DeleteAndShift(form_input_option, id)
              ELSE form_input_option
        /\ optionLog' = [op |-> "Delete", id |-> id, applied |-> written,
                         position |-> PositionOf(form_input_option, id)]
        /\ UNCHANGED <<version, db, callVars, concVars, hoursVars, labelVars,
                       runVars, lastMessageVars, optionSeq>>

\* DeleteTx in a transaction of the caller, which the caller then ends:
\* `ends` is "commit" or "rollback", fault is that of the statement or, when
\* the statement worked, of the caller's Commit
DeleteTx(id, fault, ends) ==
    LET written == ends = "commit" /\ fault \in {"", "applied"}
    IN  /\ form_input_option' =
              IF written THEN DeleteAndShift(form_input_option, id)
              ELSE form_input_option
        /\ optionLog' = [op |-> "DeleteTx", id |-> id, applied |-> written,
                         position |-> PositionOf(form_input_option, id)]
        /\ UNCHANGED <<version, db, callVars, concVars, hoursVars, labelVars,
                       runVars, lastMessageVars, optionSeq>>

NextOptions ==
    \/ \E input \in FormInputs \cup {3},
          position \in 0..MaxPosition \cup {PositionLimit + 1},
          fault \in HoursFaults : Create(input, position, fault)
    \/ \E id \in 1..MaxOptions, fault \in HoursFaults : Delete(id, fault)
    \/ \E id \in 1..MaxOptions, fault \in HoursFaults, ends \in {"commit", "rollback"} :
            DeleteTx(id, fault, ends)

SpecOptions == InitTables /\ [][NextOptions]_vars

\* ------------------------------------------- the statements on import_logs
\* SELECT run_id, date FROM import_logs WHERE guild_id = $1 AND
\* log_type = 'RUN_START'
RunsOf(rows, g) == {i \in DOMAIN rows : rows[i].guild_id = g}

\* runCount := 1; currentRuns, _ := s.GetRuns(ctx, guildId);
\* runCount += len(currentRuns)
RunCount(read) == 1 + read.runs

\* GetRuns: the query fails, or a Scan or GetRunLogs fails (nil, err); or
\* rows.Next ends early on an error nobody asks rows.Err for and the `seen`
\* runs read so far are returned; or all runs are returned
GetRuns(g, fault, seen) ==
    IF fault = "fault" THEN [runs |-> 0, err |-> "fault"]
    ELSE IF fault = "short" THEN [runs |-> seen, err |-> "nil"]
    ELSE [runs |-> Cardinality(RunsOf(import_logs, g)), err |-> "nil"]

\* CreateRun up to the return of GetRuns
CreateRunRead(c, g, fault, seen) ==
    /\ runCalls[c].pc = "idle"
    /\ Len(import_logs) < MaxRuns
    /\ fault = "short" => seen < Cardinality(RunsOf(import_logs, g))
    /\ fault # "short" => seen = 0
    /\ runCalls' = [runCalls EXCEPT ![c] =
            [pc |-> "insert", guildId |-> g, err |-> "nil",
             runCount |-> RunCount(GetRuns(g, fault, seen))]]
    /\ UNCHANGED <<version, db, callVars, concVars, hoursVars, labelVars,
                   optionVars, lastMessageVars, import_logs>>

\* s.Exec(ctx, importLogsSetRun, guildId, "RUN_START", runCount) and the
\* return of runCount, err
CreateRunInsert(c, fault) ==
    /\ runCalls[c].pc = "insert"
    /\ import_logs' =
          IF fault = ""
          THEN Append(import_logs, [guild_id |-> runCalls[c].guildId,
                                    run_id |-> runCalls[c].runCount])
          ELSE import_logs
    /\ runCalls' = [runCalls EXCEPT ![c].pc = "idle",
                                    ![c].err = IF fault = "" THEN "nil" ELSE fault]
    /\ UNCHANGED <<version, db, callVars, concVars, hoursVars, labelVars,
                   optionVars, lastMessageVars>>

NextRuns ==
    \E c \in Callers :
        \/ \E g \in RunGuilds, fault \in {"", "fault", "short"}, seen \in 0..MaxRuns :
                CreateRunRead(c, g, fault, seen)
        \/ \E fault \in {"", "fault"} : CreateRunInsert(c, fault)

SpecRuns == InitTables /\ [][NextRuns]_vars

\* ----------------------------------- the statements on ticket_last_message
\* the placeholders of the statement of Set: $1, $2, $3, $4, $5
SetPlaceholders == {1, 2, 3, 4, 5}

\* the arguments Set hands to Exec after the statement:
\* guildId, ticketId, messageId, userId
SetArguments(guild, ticket, messageId, userId, userIsStaff) ==
    <<guild, ticket, messageId, userId>>

\* FOREIGN KEY("guild_id", "ticket_id") REFERENCES tickets("guild_id", "id")
LastMessageConstraint(row) == <<row.guild_id, row.ticket_id>> \in TicketRows

\* INSERT ... VALUES($1, $2, $3, NOW(), $4, $5) ON CONFLICT("guild_id",
\* "ticket_id") DO UPDATE SET ...: the statement is prepared and takes as
\* many arguments as it has placeholders, otherwise it is not sent
ExecSet(rows, args) ==
    IF DOMAIN args # SetPlaceholders
    THEN [rows |-> rows, err |-> "arguments"]
    ELSE LET row == TicketLastMessage(args[1], args[2], args[3], args[4], args[5])
         IN  IF ~LastMessageConstraint(row)
             THEN [rows |-> rows, err |-> "constraint"]
             ELSE [rows |-> {r \in rows : <<r.guild_id, r.ticket_id>> #
                                           <<row.guild_id, row.ticket_id>>}
                            \cup {row},
                   err |-> "nil"]

\* SELECT ... WHERE "guild_id" = $1 AND "ticket_id" = $2
LastMessageOf(rows, guild, ticket) ==
    {r \in rows : r.guild_id = guild /\ r.ticket_id = ticket}

Set(guild, ticket, messageId, userId, userIsStaff, fault) ==
    LET args == SetArguments(guild, ticket, messageId, userId, userIsStaff)
        done == IF fault = "" THEN ExecSet(ticket_last_message, args)
                ELSE [rows |-> ticket_last_message, err |-> fault]
    IN  /\ ticket_last_message' = done.rows
        /\ lastMessageLog' =
              [op |-> "Set", key |-> <<guild, ticket>>,
               given |-> <<messageId, userId, userIsStaff>>,
               supplied |-> args, placeholders |-> SetPlaceholders,
               err |-> done.err, result |-> {}]
        /\ UNCHANGED <<version, db, callVars, concVars, hoursVars, labelVars,
                       optionVars, runVars>>

\* e is set for every error of the query but pgx.ErrNoRows; the result is
\* the zero TicketLastMessage then
Get(guild, ticket, fault) ==
    /\ lastMessageLog' =
          [op |-> "Get", key |-> <<guild, ticket>>, given |-> <<>>,
           supplied |-> <<guild, ticket>>, placeholders |-> {1, 2},
           err |-> IF fault = "" THEN "nil" ELSE fault,
           result |-> IF fault = "" THEN
                          {<<r.last_message_id, r.user_id, r.user_is_staff>> :
                             r \in LastMessageOf(ticket_last_message, guild, ticket)}
                      ELSE {}]
    /\ UNCHANGED <<version, db, callVars, concVars, hoursVars, labelVars,
                   optionVars, runVars, ticket_last_message>>

\* DELETE FROM ticket_last_message WHERE "guild_id"=$1 AND "ticket_id"=$2
DeleteLastMessage(guild, ticket, fault) ==
    /\ ticket_last_message' =
          IF fault = "" THEN ticket_last_message \
                             LastMessageOf(ticket_last_message, guild, ticket)
          ELSE ticket_last_message
    /\ lastMessageLog' =
          [op |-> "Delete", key |-> <<guild, ticket>>, given |-> <<>>,
           supplied |-> <<guild, ticket>>, placeholders |-> {1, 2},
           err |-> IF fault = "" THEN "nil" ELSE fault, result |-> {}]
    /\ UNCHANGED <<version, db, callVars, concVars, hoursVars, labelVars,
                   optionVars, runVars>>

NextLastMessage ==
    \E k \in TicketRows \cup {<<2, 2>>}, fault \in {"", "fault"} :
        \/ \E m \in MessageIds, u \in UserIds, staff \in BOOLEAN :
               Set(k[1], k[2], m, u, staff, fault)
        \/ Get(k[1], k[2], fault)
        \/ DeleteLastMessage(k[1], k[2], fault)

SpecLastMessage == InitLastMessage /\ [][NextLastMessage]_vars

\* =================================================================== claims
Returned == pc = "idle"

\* rows of guild g before anything was purged (a behaviour purges one guild)
Bystander(g) == g \in Guilds \ {guildId}

\* C1: when a delete statement of a purge fails, then after the call has
\* returned every table holds the rows it held when the purge began: nothing
\* the earlier statements deleted is visible.
C1_AtomicOnStatementFailure ==
    (Returned /\ failedStmt # NoFail) =>
        /\ db[guildId] = pre
        /\ \A g \in Guilds : Bystander(g) => db[g] = InitialStore[version][g]

\* the delete on tickets is rejected after the twelve child tables were
\* emptied inside the transaction; ticket_members rows are all still there
C1_Witness ==
    /\ Returned
    /\ failedStmt.table = "tickets"
    /\ succeeded >= 12
    /\ deleted > 0
    /\ pre["ticket_members"] > 0
    /\ db[guildId]["ticket_members"] = pre["ticket_members"]

\* C2: after a purge of guild g has returned success no table of the schema
\* holds a row of g.
C2_PurgeIsComplete ==
    (Returned /\ err = NoErr /\ tx = "committed") =>
        \A t \in Tables : db[guildId][t] = 0

\* C3: a purge of one guild, successful or failed, leaves every row of every
\* other guild unchanged, in every table.
C3_NoCrossTenantLeakage ==
    \A g \in Guilds : Bystander(g) => db[g] = InitialStore[version][g]

C3_Witness ==
    /\ Returned
    /\ err = NoErr
    /\ deleted > 0
    /\ \E g \in Guilds :
        /\ Bystander(g)
        /\ \A t \in StoreTables(version) : db[g][t] > 0

\* C4: a purge that repeats a successful purge of the same guild deletes no
\* row in any statement, is not rejected by the store for what the tables
\* hold, leaves the store as the first call left it and, when the store fails
\* none of its operations, returns success.
C4_Idempotent ==
    again =>
        /\ deleted = 0
        /\ failedStmt.cause # "fk"
        /\ db[guildId] = pre
        /\ (Returned /\ ~faulted) =>
               (err = NoErr /\ succeeded = TotalStatements(version))

\* the guild had rows, the first purge removed them, the second has returned
C4_Witness ==
    /\ again
    /\ Returned
    /\ err = NoErr
    /\ succeeded = TotalStatements(version)
    /\ InitialStore[version][guildId]["tickets"] > 0
    /\ db[guildId]["tickets"] = 0

\* C5: in the version with a linked-table map, a direct-table delete is
\* issued only after every linked-table delete has been issued.
C5_LinkedBeforeDirect ==
    issuedDirect > 0 => issuedLinked = Cardinality(LinkedNames(version))

C5_Witness ==
    /\ version = "linked"
    /\ issuedDirect > 0
    /\ issuedLinked = Cardinality(DOMAIN linkedTables)

\* C6: whenever a linked-table delete is about to be issued for a guild that
\* had rows in the table and in its parent table, no earlier statement of the
\* purge has removed the guild's parent rows, and the delete matches rows.
C6_ParentIntactForLinked ==
    pc = "linked" =>
        \A t \in DOMAIN linkedTables \ linkedDone :
            (pre[t] > 0 /\ pre[linkedTables[t].parentTable] > 0) =>
                /\ Visible(linkedTables[t].parentTable) > 0
                /\ LinkedMatched(t) > 0

\* C7: the linked loop issues its statements in the order in which the
\* descriptor declares the tables.
C7_DescriptorOrder ==
    pc = "linked" =>
        linkedDone = {linkedTablesDeclared[i] : i \in 1..Cardinality(linkedDone)}

\* C8: once the store has rejected a delete statement, the purge issues no
\* further delete and no commit; only the rollback follows.
C8_AbortOnFirstFailure ==
    failedStmt # NoFail =>
        /\ issuedLinked + issuedDirect = failedStmt.at
        /\ commits = 0
        /\ pc \in {"deferred", "idle"}
        /\ tx \in {"aborted", "rolledback"}

C8_Witness ==
    /\ Returned
    /\ tx = "rolledback"
    /\ failedStmt # NoFail
    /\ failedStmt.at < TotalStatements(version)
    /\ issuedLinked + issuedDirect = failedStmt.at

\* C9: the error returned for a rejected delete statement names the table of
\* that statement, which is the first one the store rejected, and carries the
\* store's error; it is never a success return.
C9_ErrorNamesFailingTable ==
    failedStmt # NoFail =>
        /\ err.kind = "delete"
        /\ err.table = failedStmt.table
        /\ err.cause = failedStmt.cause
        /\ failedStmt.at = succeeded + 1

C9_Witness ==
    /\ Returned
    /\ failedStmt.table = "panels"
    /\ failedStmt.cause = "fault"
    /\ err = DeleteError("panels", "fault")

\* C10: the purge returns nil exactly when every delete statement succeeded
\* and the commit succeeded; when it returns the error of BeginTx or of a
\* statement, nothing was committed.
C10_AllOrNothing ==
    Returned =>
        /\ (err = NoErr) <=>
               (succeeded = TotalStatements(version) /\ tx = "committed")
        /\ err.kind \in {"begin", "delete"} =>
               (tx \notin {"committed", "commitFailed"} /\ db[guildId] = pre)

C10_Witness ==
    /\ Returned
    /\ err = NoErr
    /\ tx = "committed"
    /\ deleted > 0
    /\ succeeded = TotalStatements(version)

\* C11 (as stated): after a successful begin the purge returns with its
\* transaction ended exactly once, committed if and only if the commit call
\* succeeded and otherwise rolled back, the store as it was before the call.
C11_ReleasedOnEveryPath ==
    (Returned /\ tx # "none") =>
        /\ ended = 1
        /\ tx \notin {"open", "aborted"}
        /\ applied <=> (err = NoErr)
        /\ ~applied => db[guildId] = pre

\* C11 (amended): after a successful begin the purge returns with its
\* transaction ended exactly once and never open: committed when the commit
\* call succeeded, and the deferred rollback then undoes nothing; rolled back
\* when commit was not called; and when the commit call failed, ended with
\* either all of the deletions applied or none.
C11_Released ==
    (Returned /\ tx # "none") =>
        /\ ended = 1
        /\ rollbacks = 1
        /\ tx \in {"committed", "commitFailed", "rolledback"}
        /\ (tx = "committed") <=> (err = NoErr)
        /\ tx = "committed" => applied
        /\ (commits = 0) <=> (tx = "rolledback")
        /\ tx = "rolledback" => ~applied
        /\ applied =>
               \A t \in Range(directGuildIdTables(version)) : db[guildId][t] = 0
        /\ ~applied => db[guildId] = pre

\* the commit succeeded, the deferred rollback ran on the closed transaction
\* and the deleted rows are still gone
C11_Witness ==
    /\ Returned
    /\ tx = "committed"
    /\ rollbacks = 1
    /\ rollbackErr = "closed"
    /\ pre["tickets"] > 0
    /\ db[guildId]["tickets"] = 0

\* C12: the commit error is returned only when every delete statement
\* succeeded and the commit call failed; it names no table and is never the
\* error of a failed statement, which always names one.
C12_CommitErrorDistinct ==
    /\ err.kind = "commit" =>
           /\ succeeded = TotalStatements(version)
           /\ failedStmt = NoFail
           /\ commits = 1
           /\ tx = "commitFailed"
           /\ err.table = ""
    /\ tx = "commitFailed" => err.kind = "commit"
    /\ failedStmt # NoFail => (err.kind = "delete" /\ err.table # "")

C12_Witness ==
    /\ Returned
    /\ err = CommitError("fault")
    /\ succeeded = TotalStatements(version)
    /\ deleted > 0
    /\ failedStmt = NoFail

\* C13: when BeginTx fails, the purge returns its error at once: no delete
\* statement, no commit and no rollback is issued and the store is unchanged.
C13_BeginFailure ==
    err.kind = "begin" =>
        /\ pc = "idle"
        /\ err.cause \in Failures
        /\ tx = "none"
        /\ issuedLinked + issuedDirect = 0
        /\ commits = 0
        /\ rollbacks = 0
        /\ db[guildId] = pre
        /\ \A g \in Guilds : Bystander(g) => db[g] = InitialStore[version][g]

C13_Witness ==
    /\ Returned
    /\ err = BeginError("fault")
    /\ pre["tickets"] > 0
    /\ db[guildId]["tickets"] = pre["tickets"]

\* C14: when the rollback after a failed delete statement fails too, the
\* caller is given both errors, the statement's error first.
C14_RollbackErrorReported ==
    (Returned /\ failedStmt # NoFail /\ rollbackErr = "failed") =>
        /\ err.kind = "delete"
        /\ failedStmt.cause \in Wrapped(err)
        /\ rollbackErr \in Wrapped(err)

DescriptorTables(v) == Range(directGuildIdTables(v)) \cup LinkedNames(v)

\* every statement of the call was executed by the store
AllStatementsDone ==
    /\ pc \in {"commit", "deferred", "idle"}
    /\ succeeded = TotalStatements(version)

C17_NoInternalRetries ==
    /\ commits <= 1
    /\ rollbacks <= 1
    /\ issuedLinked <= Cardinality(LinkedNames(version))
    /\ issuedDirect <= Len(directGuildIdTables(version))
    /\ Len(directGuildIdTables(version))
           = Cardinality(Range(directGuildIdTables(version)))
    /\ pc = "linked" => (issuedLinked = Cardinality(linkedDone) /\ issuedDirect = 0)
    /\ pc = "direct" => issuedDirect = di - 1
    /\ pc = "commit" => (commits = 0 /\ issuedLinked + issuedDirect = succeeded)
    /\ err.kind = "begin" => (tx = "none" /\ issuedLinked + issuedDirect = 0)
    /\ failedStmt # NoFail =>
           (issuedLinked + issuedDirect = succeeded + 1 /\ commits = 0)
    /\ tx = "commitFailed" => (commits = 1 /\ pc \in {"deferred", "idle"})

\* a statement in the middle of the direct list failed: one statement more
\* was issued than succeeded, and none after it
C17_Witness ==
    /\ Returned
    /\ failedStmt.table = "forms"
    /\ issuedLinked + issuedDirect = succeeded + 1
    /\ commits = 0
    /\ issuedDirect = 18

\* what the purge of a guild leaves of its rows when it runs alone in a store
\* as first populated: the tables of the list and those they cascade to are
\* empty
AlonePurged ==
    [v \in Versions |-> [g \in Guilds |->
        [t \in Tables |->
            IF t \in UNION {Cascade[d] : d \in Range(directGuildIdTables(v))}
            THEN 0 ELSE InitialStore[v][g][t]]]]

\* C18: two purges of different guilds, each in its own transaction and
\* interleaved in any way, do not touch each other's rows: every statement
\* matches exactly the rows of its own guild, a transaction holds deletions
\* of its own guild only, no call fails for what the other did, and in every
\* state the rows of every guild are what the purge of that guild alone would
\* have left - all there, or purged once its own commit was applied.
C18_ConcurrentPurgesIndependent ==
    /\ \A c \in Callers :
           LET k == calls[c]
           IN  /\ k.err.cause \in {"", "fault", "canceled"}
               /\ k.pc \in {"direct", "commit"} =>
                      /\ txns[TxOf(c)].state = "open"
                      /\ k.deleted = (k.di - 1) * InitialRows(k.guildId)
               /\ txns[TxOf(c)].writes \subseteq Cells(k.guildId, Tables)
               /\ (k.pc = "idle" /\ k.err.kind = "nil") => k.applied
               /\ k.err.kind \in {"begin", "delete"} => ~k.applied
    /\ \A g \in Guilds :
           db[g] = IF \E c \in Callers : calls[c].guildId = g /\ calls[c].applied
                   THEN AlonePurged[version][g]
                   ELSE InitialStore[version][g]

\* B began after A, overtook it and committed while A is still deleting; A
\* finds the rows of its guild all there
C18_Witness ==
    /\ calls["A"].pc = "direct"
    /\ calls["A"].di = 13
    /\ calls["A"].deleted > 0
    /\ calls["B"].pc = "idle"
    /\ calls["B"].applied
    /\ calls["B"].deleted > 0
    /\ db[calls["B"].guildId]["tickets"] = 0
    /\ db[calls["A"].guildId]["ticket_members"] > 0

\* no table of the store holds a row of the purged guild
UnknownGuild == \A t \in Tables : pre[t] = 0

\* C19: the purge of a guild that has no row in any table is not rejected:
\* every statement affects 0 rows and, unless the store or the context fails
\* a call, the transaction commits, nil is returned and the store is as it
\* was.
C19_UnknownGuildIsNoOp ==
    (UnknownGuild /\ pc # "start") =>
        /\ deleted = 0
        /\ reported = {}
        /\ txDeleted = {}
        /\ failedStmt.cause \in {"", "fault", "canceled"}
        /\ db = InitialStore[version]
        /\ (Returned /\ ~faulted) =>
               /\ err = NoErr
               /\ tx = "committed"
               /\ succeeded = TotalStatements(version)

C19_Witness ==
    /\ Returned
    /\ UnknownGuild
    /\ ~again
    /\ err = NoErr
    /\ tx = "committed"
    /\ succeeded = TotalStatements(version)
    /\ db = InitialStore[version]

\* the parent links of the descriptor of each version, looked at once
DescriptorClosed ==
    [v \in Versions |->
        \A t \in LinkedNames(v) :
            /\ ParentOf(t) \in Range(directGuildIdTables(v)) \cup LinkedNames(v)
            /\ Ancestors(t, Cardinality(LinkedNames(v)))
                   \cap Range(directGuildIdTables(v)) # {}
            /\ Ancestors(t, Cardinality(LinkedNames(v)))
                   \subseteq Range(directGuildIdTables(v)) \cup LinkedNames(v)]

\* C20: every parentTable of the linked-table map is a table of the direct
\* list or a key of the map, and the parent links from every linked table
\* end in a table of the direct list: there is no dangling parent and no
\* cycle.
C20_DescriptorClosure == DescriptorClosed[version]

\* the statement of form_input_options, whose parent form_input is itself a
\* linked table with parent forms, has been executed
C20_Witness ==
    /\ version = "linked"
    /\ "form_input_options" \in linkedDone
    /\ ParentOf("form_input_options") \in DOMAIN linkedTables
    /\ ParentOf(ParentOf("form_input_options")) \in Range(directGuildIdTablesLinked)

\* C21: every ticket child table of the direct list stands before tickets, so
\* when the delete on tickets is issued the transaction sees no row of the
\* guild left in any of them, no row of ticket_last_message (whose key to
\* tickets has no ON DELETE action) references a ticket, and the statement
\* does not fail on that key.
TicketChildren ==
    {"archive_messages", "auto_close_exclude", "category_update_queue",
     "close_reason", "close_request", "exit_survey_responses",
     "first_response_time", "participant", "participants", "service_ratings",
     "ticket_claims", "ticket_last_message", "ticket_members"}

C21_ChildrenBeforeTickets ==
    (pc = "direct" /\ di <= Len(directGuildIdTables(version))
                   /\ TableAt(version, di) = "tickets") =>
        /\ \A t \in TicketChildren \cap StoreTables(version) :
              /\ \E i \in 1..(di - 1) : TableAt(version, i) = t
              /\ Visible(t) = 0
        /\ ~FKViolation(Removed("tickets", Visible("tickets")))

\* the delete on tickets is about to be issued for a guild that had tickets
\* and last messages
C21_Witness ==
    /\ pc = "direct"
    /\ TableAt(version, di) = "tickets"
    /\ Visible("tickets") > 0
    /\ pre["ticket_last_message"] > 0
    /\ Visible("ticket_last_message") = 0

\* C22: the purge of src/guildpurge.go relies on ON DELETE CASCADE: every
\* declared table outside the direct list that references a table of the list
\* declares the cascade, and once the deletes are committed it holds no row
\* of the guild that referenced a deleted parent row.
CascadeReliant ==
    {fk \in ForeignKeys \ FKFormInput :
        /\ fk.parent \in Range(directGuildIdTablesList)
        /\ fk.child \notin Range(directGuildIdTablesList)}

C22_CascadeReliance ==
    (version = "list" /\ applied) =>
        /\ {fk.child : fk \in CascadeReliant} =
              {"multi_panel_targets", "panel_here_mentions", "panel_support_hours",
               "panel_support_hours_settings", "ticket_label_assignments"}
        /\ \A fk \in CascadeReliant :
              /\ fk.onDelete = "CASCADE"
              /\ db[guildId][fk.child] = 0

\* a committed list purge of a guild that had rows in the child tables
C22_Witness ==
    /\ version = "list"
    /\ Returned
    /\ tx = "committed"
    /\ pre["multi_panel_targets"] > 0
    /\ pre["ticket_label_assignments"] > 0
    /\ db[guildId]["multi_panel_targets"] = 0
    /\ db[guildId]["ticket_label_assignments"] = 0

C23_EventOrder ==
    /\ pc # "start" => events.start = 1
    /\ tx # "none" => events.start = 1
    /\ events.completed = (IF tx = "committed" THEN 1 ELSE 0)
    /\ events.completed > 0 => events.last = "completed"
    /\ events.failed > 0 =>
          /\ events.failed = 1
          /\ events.last = "failed"
          /\ events.completed = 0
          /\ tx \in {"aborted", "rolledback"}
    /\ pc \in {"linked", "direct", "commit"} =>
          /\ events.rows = (reported # {})
          /\ events.last = (IF reported # {} THEN "rows" ELSE "start")
          /\ pc = "direct" =>
                \A i \in 1..Len(directGuildIdTables(version)) :
                    LET t == TableAt(version, i)
                    IN  (\E r \in reported : r.table = t) =>
                            /\ i < di
                            /\ \A j \in 1..(i - 1) :
                                  pre[TableAt(version, j)] > 0 =>
                                      \E r \in reported : r.table = TableAt(version, j)

\* a committed purge that logged its start, row counts and its completion
C23_Witness ==
    /\ Returned
    /\ tx = "committed"
    /\ events.start = 1
    /\ events.rows
    /\ events.completed = 1
    /\ events.last = "completed"

\* C25: two concurrent purges, for the same guild or for different guilds,
\* issue their statements in the same relative order, so no state is reached
\* in which each of them waits for a lock the other holds.
C25_NoDeadlockBetweenPurges == ~Deadlocked

\* the values the rows of key k carry
HoursRow(k) == {HoursValue(r) : r \in {x \in panel_support_hours : HoursKey(x) = k}}

OneRowPerKey ==
    /\ \A r \in panel_support_hours : HoursKey(r) \in HoursKeys
    /\ \A r1, r2 \in panel_support_hours : HoursKey(r1) = HoursKey(r2) => r1 = r2

\* C24 as stated: at most one row per (panel_id, day_of_week), carrying the
\* values of the most recent successful upsert for the key, so never those of
\* an upsert that returned an error; UpsertBatch stores under panelId.
C24_MostRecentSuccessfulUpsert ==
    /\ OneRowPerKey
    /\ \A k \in HoursKeys : HoursRow(k) = hoursLog.applied[k]
    /\ hoursLog.last.wrote => hoursLog.last.err = "nil"

\* C24, amended: at most one row per (panel_id, day_of_week), carrying the
\* values of the most recent upsert for the key that took effect in the
\* store (one that returned nil, or one whose reply or Commit failed after
\* the store had applied it); UpsertBatch stores every entry under its
\* panelId argument, whatever PanelId the entry carries.
C24_MostRecentAppliedUpsert ==
    /\ OneRowPerKey
    /\ \A k \in HoursKeys : HoursRow(k) = hoursLog.applied[k]
    /\ hoursLog.last.wrote => hoursLog.last.err \in {"nil", "applied", "commit"}

\* a batch whose entries carried another PanelId was stored, over rows that
\* were there, under the panelId argument
C24_Witness ==
    /\ hoursLog.last.op = "UpsertBatch"
    /\ hoursLog.last.err = "nil"
    /\ hoursLog.last.foreign
    /\ Cardinality(panel_support_hours) = 3
    /\ \E r \in panel_support_hours : r.panel_id = 1 /\ ~r.enabled
    /\ \E r \in panel_support_hours : r.panel_id = 2 /\ r.enabled

\* the assignments of every ticket other than that of the last Replace are
\* what they were before it
OtherTicketsUnchanged ==
    DeleteAssignments(ticket_label_assignments, replaceLog.key) =
        DeleteAssignments(replaceLog.before, replaceLog.key)

\* C27 as stated: Replace is an atomic set replacement: when it returns nil
\* the labels of the ticket are exactly the values of labelIds; when it
\* returns an error the assignments are what they were before the call; the
\* assignments of other tickets are unchanged either way.
C27_AtomicSetReplacement ==
    replaceLog.err # "none" =>
        /\ replaceLog.err = "nil" =>
              LabelsOf(ticket_label_assignments, replaceLog.key) = replaceLog.labels
        /\ replaceLog.err # "nil" => ticket_label_assignments = replaceLog.before
        /\ OtherTicketsUnchanged

\* C27, amended: as stated, but when the error returned is that of Commit the
\* assignments of the ticket are either what they were before the call or
\* exactly the values of labelIds.
C27_AtomicUnlessCommitFails ==
    replaceLog.err # "none" =>
        /\ replaceLog.err = "nil" =>
              LabelsOf(ticket_label_assignments, replaceLog.key) = replaceLog.labels
        /\ replaceLog.err \notin {"nil", "commit"} =>
              ticket_label_assignments = replaceLog.before
        /\ replaceLog.err = "commit" =>
              \/ ticket_label_assignments = replaceLog.before
              \/ LabelsOf(ticket_label_assignments, replaceLog.key) = replaceLog.labels
        /\ OtherTicketsUnchanged

\* a Replace with a label named twice succeeded on a ticket that had another
\* label, while the other tickets kept their labels
C27_Witness ==
    /\ replaceLog.err = "nil"
    /\ replaceLog.key = <<1, 1>>
    /\ replaceLog.labels = {2}
    /\ replaceLog.count = 2
    /\ LabelsOf(ticket_label_assignments, <<1, 2>>) = {1}
    /\ LabelsOf(replaceLog.before, <<1, 1>>) = {1}
    /\ LabelsOf(ticket_label_assignments, <<1, 1>>) = {2}
    /\ LabelsOf(ticket_label_assignments, <<2, 1>>) = {1}

\* the options of the form input occupy the positions 1..n
Contiguous(rows, input) ==
    {r.position : r \in OptionsOf(rows, input)} =
        1..Cardinality(OptionsOf(rows, input))

\* what a step of Delete or DeleteTx for the option `id` does to the table
DeleteEffect(id, written, before, after) ==
    IF ~written \/ PositionOf(before, id) = 0 THEN after = before
    ELSE LET d == CHOOSE r \in before : r.id = id
             input == d.form_input_id
         IN  /\ {r \in after : r.form_input_id # input} =
                   {r \in before : r.form_input_id # input}
             /\ {r.id : r \in OptionsOf(after, input)} =
                   {r.id : r \in OptionsOf(before, input)} \ {id}
             /\ Contiguous(before, input) =>
                   /\ Contiguous(after, input)
                   /\ Cardinality(OptionsOf(after, input)) =
                         Cardinality(OptionsOf(before, input)) - 1
                   /\ \A r1, r2 \in OptionsOf(after, input) :
                         (r1.position < r2.position) <=>
                             (PositionOf(before, r1.id) < PositionOf(before, r2.id))

\* C28: when the options of a form input occupy the positions 1..n, a Delete
\* or DeleteTx of the option at position p that takes effect leaves the other
\* options of the input at 1..n-1 in the order they had; the options of other
\* form inputs are unchanged; deleting an id that does not exist changes
\* nothing.
C28_PositionsStayContiguous ==
    [][optionLog'.op \in {"Delete", "DeleteTx"} =>
          DeleteEffect(optionLog'.id, optionLog'.applied,
                       form_input_option, form_input_option')]_vars

\* the first of the options of a form input was deleted and the option behind
\* it moved up, while the other form input kept its option
C28_Witness ==
    /\ optionLog.op = "Delete"
    /\ optionLog.applied
    /\ optionLog.position = 1
    /\ {r.position : r \in OptionsOf(form_input_option, 1)} = {1}
    /\ {r.position : r \in OptionsOf(form_input_option, 2)} = {1}

\* C29: the run ids of a guild are unique: the RUN_START row a successful
\* CreateRun inserts carries a run id that no other RUN_START row of the
\* guild carries, one more than the number of runs the guild had, also when
\* two calls for the guild interleave and when the GetRuns read failed.
C29_RunIdsUnique ==
    \A i, j \in DOMAIN import_logs :
        /\ (i # j /\ import_logs[i].guild_id = import_logs[j].guild_id) =>
              import_logs[i].run_id # import_logs[j].run_id
        /\ import_logs[i].run_id =
              Cardinality({k \in RunsOf(import_logs, import_logs[i].guild_id) : k <= i})

\* C30: Set hands the store a value for every placeholder of its statement;
\* when it has returned nil the table holds exactly one row for
\* (guildId, ticketId), and that row - what Get reads - carries the
\* messageId, userId and userIsStaff of the call.
C30_SetGetRoundTrip ==
    lastMessageLog.op = "Set" =>
        /\ DOMAIN lastMessageLog.supplied = lastMessageLog.placeholders
        /\ lastMessageLog.err = "nil" =>
              {<<r.last_message_id, r.user_id, r.user_is_staff>> :
                 r \in LastMessageOf(ticket_last_message, lastMessageLog.key[1],
                                     lastMessageLog.key[2])}
                = {lastMessageLog.given}

====
